---- MODULE Spec2Model ----
(***************************************************************************)
(* Hide-and-seek matrix game (src/main.py: HideAndSeekGame, src/GUI.py:    *)
(* HideAndSeekGUI).  The game object builds a payoff matrix from random    *)
(* place types, solves the two linear programs of the matrix game, plays   *)
(* rounds against the human, simulates rounds, and saves/loads its state.  *)
(*                                                                         *)
(* Numbers.  Python floats are modelled as exact rationals.  Payoffs and   *)
(* scores are integers in units of 1/PayoffScale; LP solutions are vectors *)
(* of numerators over one positive denominator.  HideAndSeekGame.init is   *)
(* the constructor (GUI.py calls HideAndSeekGame(...)).                    *)
(***************************************************************************)
EXTENDS Integers, Sequences, FiniteSets, TLC

(***************************************************************************)
(* Bounds of the model.                                                    *)
(***************************************************************************)
\* live rounds a game may accumulate before Submit is no longer explored
MaxRounds == 2
\* the rounds arguments of run_simulation explored (the GUI passes 100)
SimulationRounds == {0, 1}

\* world sizes explored.  The exact LP arithmetic below stays inside TLC's
\* 32-bit integers up to world size 4.
WorldSizes == {2, 3, 4}

\* fixed-point unit of payoffs and scores: every payoff the 1D code produces
\* for a world size in WorldSizes is a multiple of 1/12
PayoffScale == 12

(***************************************************************************)
(* Arithmetic helpers.                                                     *)
(***************************************************************************)
Abs(x) == IF x < 0 THEN -x ELSE x

RECURSIVE GCD(_, _)
GCD(a, b) == IF b = 0 THEN Abs(a) ELSE GCD(b, a % Abs(b))

RECURSIVE SumOver(_, _)
\* sum of f[i] for i in the finite set S
SumOver(f, S) ==
  IF S = {} THEN 0
  ELSE LET i == CHOOSE j \in S : TRUE IN f[i] + SumOver(f, S \ {i})

RECURSIVE GCDOver(_, _)
GCDOver(f, S) ==
  IF S = {} THEN 0
  ELSE LET i == CHOOSE j \in S : TRUE IN GCD(f[i], GCDOver(f, S \ {i}))

\* the k-th smallest (k = 0, 1, ...) element of a finite set of integers
Nth(S, k) == CHOOSE e \in S : Cardinality({d \in S : d < e}) = k

\* integer square root (floor)
ISqrt(x) == CHOOSE r \in 0..x : r * r <= x /\ (r + 1) * (r + 1) > x

(***************************************************************************)
(* Exact rational linear algebra for the LP solver.  A k x k matrix is a   *)
(* sequence of k rows, each a sequence of k integers.                      *)
(***************************************************************************)
\* the same sequence as an explicit tuple, the same function as an explicit
\* function: evaluated once instead of at every application
Tup(s) == s \o <<>>
Fcn(f) == f @@ [i \in {} |-> 0]

Minor(A, k, j) ==
  Tup([r \in 1..(k - 1) |-> Tup([cc \in 1..(k - 1) |-> A[r + 1][IF cc < j THEN cc ELSE cc + 1]])])

RECURSIVE Det(_, _)
Det(A, k) ==
  IF k = 0 THEN 1
  ELSE IF k = 1 THEN A[1][1]
  ELSE IF k = 2 THEN A[1][1] * A[2][2] - A[1][2] * A[2][1]
  ELSE SumOver([j \in 1..k |->
                  IF A[1][j] = 0 THEN 0
                  ELSE (IF j % 2 = 1 THEN 1 ELSE -1) * A[1][j] * Det(Minor(A, k, j), k - 1)],
               1..k)

\* a/b <= c/d for b, d > 0, by continued-fraction comparison (no products)
RECURSIVE FracLE(_, _, _, _)
FracLE(a, b, c, d) ==
  LET qa == a \div b
      qc == c \div d
      ra == a % b
      rc == c % d
  IN  IF qa # qc THEN qa < qc
      ELSE IF ra = 0 THEN TRUE
      ELSE IF rc = 0 THEN FALSE
      ELSE FracLE(d, rc, b, ra)

\* <<q, r>> with a * 10^digits = q * b + r and 0 <= r < b, by long division
RECURSIVE LongDiv(_, _, _)
LongDiv(a, b, digits) ==
  IF digits = 0 THEN <<a \div b, a % b>>
  ELSE LET p == LongDiv(a, b, digits - 1)
       IN  <<p[1] * 10 + ((p[2] * 10) \div b), (p[2] * 10) % b>>

\* a/b - c/d < t / 10^6 for b, d > 0 and an integer t, exactly: compare the
\* two numbers in millionths, and their remainders when that is not enough
FracDiffLessMicro(a, b, c, d, t) ==
  LET x == LongDiv(a, b, 6)
      y == LongDiv(c, d, 6)
  IN  IF x[1] - y[1] # t THEN x[1] - y[1] < t
      ELSE ~FracLE(y[2], d, x[2], b)

\* |a/b - c/d| < t / 10^6
FracAbsDiffLessMicro(a, b, c, d, t) ==
  FracDiffLessMicro(a, b, c, d, t) /\ FracDiffLessMicro(c, d, a, b, t)

(***************************************************************************)
(* scipy.optimize.linprog(c, A_ub, b_ub, A_eq, b_eq, bounds), for programs *)
(* with one equality row and variables that are either >= 0 or free:       *)
(*     minimise c.x  subject to  A_ub x <= b_ub,  A_eq x = b_eq, bounds.   *)
(* N variables 0..N-1, m inequality rows 0..m-1.  The solver returns an    *)
(* optimal vertex: a basic solution fixes the variables of Z at their      *)
(* bound 0 and makes the rows of T tight, with |T| + 1 = N - |Z|.          *)
(* A result is [x: 0..N-1 -> Int, den: Int]; the point is x[i]/den.        *)
(***************************************************************************)
LPBases(N, m, nonneg) ==
  {b \in (SUBSET {i \in 0..(N - 1) : nonneg[i]}) \X (SUBSET (0..(m - 1))) :
      Cardinality(b[2]) + 1 = N - Cardinality(b[1])}

LPBasicSolution(A_ub, b_ub, A_eq, b_eq, N, Z, T) ==
  LET k    == N - Cardinality(Z)
      F    == (0..(N - 1)) \ Z
      free == Tup([cc \in 1..k |-> Nth(F, cc - 1)])
      rws  == Tup([r \in 1..(k - 1) |-> Nth(T, r - 1)])
      \* rows 1..k-1 are the tight inequalities, row k the equality
      B    == Tup([r \in 1..k |-> Tup([cc \in 1..k |->
                 IF r < k THEN A_ub[rws[r]][free[cc]] ELSE A_eq[0][free[cc]]])])
      rhs  == Tup([r \in 1..k |-> IF r < k THEN b_ub[rws[r]] ELSE b_eq[0]])
      d    == Det(B, k)
      \* Cramer's rule: column i replaced by the right-hand side
      Bi(i) == Tup([r \in 1..k |-> Tup([cc \in 1..k |->
                 IF cc = i THEN rhs[r] ELSE B[r][cc]])])
      sgn  == IF d < 0 THEN -1 ELSE 1
      raw  == Fcn([i \in 0..(N - 1) |->
                 IF i \in Z THEN 0
                 ELSE sgn * Det(Bi(1 + Cardinality({f \in F : f < i})), k)])
      g    == GCD(GCDOver(raw, 0..(N - 1)), d)
  IN  IF d = 0 THEN [ok |-> FALSE, x |-> [i \in 0..(N - 1) |-> 0], den |-> 1]
      ELSE [ok |-> TRUE, x |-> Fcn([i \in 0..(N - 1) |-> raw[i] \div g]),
            den |-> Abs(d) \div g]

LPFeasible(p, A_ub, b_ub, N, m, nonneg) ==
  /\ p.ok
  /\ \A i \in 0..(N - 1) : nonneg[i] => p.x[i] >= 0
  /\ \A t \in 0..(m - 1) :
        SumOver([i \in 0..(N - 1) |-> A_ub[t][i] * p.x[i]], 0..(N - 1)) <= b_ub[t] * p.den

LPObjective(c, p, N) == SumOver([i \in 0..(N - 1) |-> c[i] * p.x[i]], 0..(N - 1))

\* the optimal vertices, each with its objective value fun/den; empty when
\* the program is infeasible
LinProgOptima(c, A_ub, b_ub, A_eq, b_eq, nonneg, N, m) ==
  LET cand == {LPBasicSolution(A_ub, b_ub, A_eq, b_eq, N, b[1], b[2]) :
                  b \in LPBases(N, m, nonneg)}
      feas == {[x |-> p.x, den |-> p.den, fun |-> LPObjective(c, p, N)] :
                  p \in {q \in cand : LPFeasible(q, A_ub, b_ub, N, m, nonneg)}}
      best == {p \in feas : \A q \in feas : FracLE(p.fun, p.den, q.fun, q.den)}
  IN  {p : p \in best}

(***************************************************************************)
(* HideAndSeekGame: pure parts.                                            *)
(***************************************************************************)
Categories == {0, 1, 2}       \* 0 = Hard, 1 = Neutral, 2 = Easy

\* not-a-number, produced by np.sqrt of a negative number
NaN == 999999

CountOf(f, n, t) == Cardinality({i \in 0..(n - 1) : f[i] = t})

\* generate_place_types without the leading [0, 1, 2]: every position drawn
generate_place_types_all_drawn(size) ==
  LET len == IF size > 3 THEN size ELSE 3
  IN  [0..(len - 1) -> Categories]

\* generate_place_types: [0, 1, 2] extended by world_size - 3 random draws
\* (when that is positive), then shuffled.  Every outcome of the draws and of
\* the shuffle: the lists of that length with the same category counts.
generate_place_types(size) ==
  LET remaining == size - 3
      len       == IF remaining > 0 THEN 3 + remaining ELSE 3
      extras    == [3..(len - 1) -> Categories]
  IN  {f \in [0..(len - 1) -> Categories] :
         \E e \in extras : \A t \in Categories :
            CountOf(f, len, t) = 1 + Cardinality({i \in 3..(len - 1) : e[i] = t})}

\* calculate_distance, as [nan, num, den]: the distance scaled to 0..1 is
\* num/den.  1D: |pos1 - pos2| / (world_size - 1).  2D: the code takes
\* sqrt((x1-x2)*2 + (y1-y2)*2) / sqrt((rows-1)*2 + (cols-1)*2); the square
\* root of a negative number is NaN, and the quotient of the two roots is
\* kept in sixths (rounded down).
calculate_distance(pos1, pos2, size, twod, nrows, ncols) ==
  IF twod
  THEN LET x1 == pos1 \div ncols
           y1 == pos1 % ncols
           x2 == pos2 \div ncols
           y2 == pos2 % ncols
           rad    == (x1 - x2) * 2 + (y1 - y2) * 2
           maxrad == (nrows - 1) * 2 + (ncols - 1) * 2
       IN  IF rad < 0 THEN [nan |-> TRUE, num |-> 0, den |-> 1]
           ELSE [nan |-> FALSE, num |-> ISqrt((36 * rad) \div maxrad), den |-> 6]
  ELSE [nan |-> FALSE, num |-> Abs(pos1 - pos2), den |-> size - 1]

\* (found_payoff, not_found_payoff) per place type, in units of 1/PayoffScale
payoffs ==
  [t \in Categories |->
     IF t = 0 THEN <<-6 * PayoffScale, 4 * PayoffScale>>
     ELSE IF t = 1 THEN <<-3 * PayoffScale, (3 * PayoffScale) \div 2>>
     ELSE <<-1 * PayoffScale, PayoffScale \div 2>>]

\* generate_payoff_matrix taking the not-found payoff from the category of the
\* seeker's position instead of the hider's
generate_payoff_matrix_by_seeker(size, types, prox, twod, nrows, ncols) ==
  Fcn([h \in 0..(size - 1) |-> Fcn([s \in 0..(size - 1) |->
     LET distance == calculate_distance(h, s, size, twod, nrows, ncols)
     IN  IF h = s
         THEN LET base == payoffs[types[h]][1]
              IN  IF prox
                  THEN IF distance.nan THEN NaN
                       ELSE (base * (distance.den + distance.num)) \div (2 * distance.den)
                  ELSE base
         ELSE LET base == payoffs[types[s]][2]
              IN  IF prox
                  THEN IF distance.nan THEN NaN
                       ELSE (base * (3 * distance.den - 2 * distance.num)) \div (2 * distance.den)
                  ELSE base])])

\* generate_payoff_matrix: found payoff on the diagonal, not-found payoff off
\* it; with use_proximity the diagonal is base * (0.5 + 0.5 * distance) and
\* the rest base * (1.5 - distance).
generate_payoff_matrix(size, types, prox, twod, nrows, ncols) ==
  Fcn([h \in 0..(size - 1) |-> Fcn([s \in 0..(size - 1) |->
     LET distance == calculate_distance(h, s, size, twod, nrows, ncols)
     IN  IF h = s
         THEN LET base == payoffs[types[h]][1]
              IN  IF prox
                  THEN IF distance.nan THEN NaN
                       ELSE (base * (distance.den + distance.num)) \div (2 * distance.den)
                  ELSE base
         ELSE LET base == payoffs[types[h]][2]
              IN  IF prox
                  THEN IF distance.nan THEN NaN
                       ELSE (base * (3 * distance.den - 2 * distance.num)) \div (2 * distance.den)
                  ELSE base])])

HasNaN(matrix, n) == \E h, s \in 0..(n - 1) : matrix[h][s] = NaN

(***************************************************************************)
(* calculate_optimal_strategies: the two linear programs.                  *)
(* Variables 0..n-1 are the probabilities, variable n is the game value.   *)
(***************************************************************************)
ProbBounds(n) == [i \in 0..n |-> i < n]        \* (0, None) * n + (None, None)
SumToOne(n)   == [r \in {0} |-> [i \in 0..n |-> IF i < n THEN 1 ELSE 0]]

\* HiderLP reading the matrix by rows instead of by columns (A_ub without the
\* transpose): the program of a different game
HiderLP_rows(matrix, n) ==
  LinProgOptima([i \in 0..n |-> IF i = n THEN -1 ELSE 0],
                [j \in 0..(n - 1) |-> [i \in 0..n |->
                    IF i < n THEN -matrix[j][i] ELSE 1]],
                [j \in 0..(n - 1) |-> 0],
                SumToOne(n), [r \in {0} |-> 1], ProbBounds(n), n + 1, n)

\* Hider (row player), maximin: minimise -v subject to
\*   -sum_i x_i * A[i][j] + v <= 0 for every column j, sum x = 1
HiderLP(matrix, n) ==
  LinProgOptima([i \in 0..n |-> IF i = n THEN -1 ELSE 0],
                [j \in 0..(n - 1) |-> [i \in 0..n |->
                    IF i < n THEN -matrix[i][j] ELSE 1]],
                [j \in 0..(n - 1) |-> 0],
                SumToOne(n), [r \in {0} |-> 1], ProbBounds(n), n + 1, n)

\* Seeker (column player), minimax: minimise u subject to
\*   sum_j A[i][j] * y_j - u <= 0 for every row i, sum y = 1
SeekerLP(matrix, n) ==
  LinProgOptima([j \in 0..n |-> IF j = n THEN 1 ELSE 0],
                [i \in 0..(n - 1) |-> [j \in 0..n |->
                    IF j < n THEN matrix[i][j] ELSE -1]],
                [i \in 0..(n - 1) |-> 0],
                SumToOne(n), [r \in {0} |-> 1], ProbBounds(n), n + 1, n)

\* HideAndSeekGame.init: rows is the largest divisor of world_size that is at
\* most int(sqrt(world_size))
RECURSIVE GridRows(_, _)
GridRows(n, r) == IF n % r = 0 THEN r ELSE GridRows(n, r - 1)

\* games built by calling the constructor directly, HideAndSeekGame(5,
\* use_proximity=False, is_2d=...): the interface offers no grid that is not
\* a square, the class accepts any size. One outcome of the random place types
\* is followed.
DirectWorldSizes == {5}
DirectPlaceTypes(size) == {t \in generate_place_types(size) : \A i \in 0..(size - 1) : t[i] = i % 3}
DirectWorlds ==
  {[world_size |-> n, use_proximity |-> FALSE, is_2d |-> twod,
    rows |-> IF twod THEN GridRows(n, ISqrt(n)) ELSE 1,
    cols |-> IF twod THEN n \div GridRows(n, ISqrt(n)) ELSE n,
    place_types |-> t] :
      n \in DirectWorldSizes, twod \in BOOLEAN, t \in UNION {DirectPlaceTypes(k) : k \in DirectWorldSizes}}
DirectMatrices ==
  {generate_payoff_matrix(w.world_size, w.place_types, w.use_proximity, w.is_2d, w.rows, w.cols) :
     w \in DirectWorlds}

\* every payoff matrix a game can hold: the matrices generate_payoff_matrix
\* builds for the world sizes explored (a 2D world is a square grid)
Topologies ==
  {[world_size |-> n, is_2d |-> FALSE, rows |-> 1, cols |-> n] : n \in WorldSizes}
  \cup {[world_size |-> r * r, is_2d |-> TRUE, rows |-> r, cols |-> r] :
           r \in {q \in 2..4 : q * q \in WorldSizes}}

AllMatrices ==
  UNION {{generate_payoff_matrix(w.world_size, t, prox, w.is_2d, w.rows, w.cols) :
             t \in generate_place_types(w.world_size), prox \in BOOLEAN} :
         w \in Topologies}

\* the optimal vertices of both programs, solved once per matrix
LPTable ==
  {[matrix |-> M,
    hider  |-> HiderLP(M, Cardinality(DOMAIN M)),
    seeker |-> SeekerLP(M, Cardinality(DOMAIN M))] :
     M \in {A \in AllMatrices \cup DirectMatrices : ~HasNaN(A, Cardinality(DOMAIN A))}}

LPOf(M) == CHOOSE e \in LPTable : e.matrix = M

\* a strategy is [x, den]: probability x[i]/den for position i; an attribute
\* that was never assigned has den = 0
Unset == [x |-> <<>>, den |-> 0]
IsSet(probs) == probs.den # 0
LenOf(probs) == Cardinality(DOMAIN probs.x)

\* result.x kept whole, the game value with the probabilities
ExcludeLast_whole(r, n) == [x |-> Fcn([i \in 0..n |-> r.x[i]]), den |-> r.den]

\* result.x[:-1]
ExcludeLast(r, n) == [x |-> Fcn([i \in 0..(n - 1) |-> r.x[i]]), den |-> r.den]

\* abs(game_value - seeker_result.fun) < 1e-6, values in units of 1/PayoffScale
DualityAssert(game_value, fun) ==
  FracAbsDiffLessMicro(game_value.num, game_value.den, fun.num, fun.den, PayoffScale)

\* the results linprog may return for a program with the optimal vertices
\* opt: success with one of them; success = False when there is none, or
\* (may_fail) when the solver gives up
LinProgResults(opt, may_fail) ==
  {[success |-> TRUE, x |-> r.x, den |-> r.den, fun |-> r.fun] : r \in opt}
  \cup (IF may_fail \/ opt = {}
        THEN {[success |-> FALSE, x |-> <<>>, den |-> 1, fun |-> 0]} ELSE {})

NoValue == [num |-> 0, den |-> 0]

\* calculate_optimal_strategies on a game with the given matrix and the given
\* current strategy attributes: every outcome, as the attributes afterwards,
\* the exception raised ("none" when it returns) and what the solver did
\* (gave_up: linprog returned success = False for a program that has an optimum)
calculate_optimal_strategies(matrix, size, old_hider, old_seeker, may_fail) ==
  IF HasNaN(matrix, size)
  THEN \* linprog rejects an A_ub that is not finite
       {[hider_probabilities |-> old_hider, seeker_probabilities |-> old_seeker,
         raised |-> "ValueError", gave_up |-> FALSE,
         hider_success |-> FALSE, seeker_success |-> FALSE,
         game_value |-> NoValue, seeker_fun |-> NoValue]}
  ELSE
    LET lp == LPOf(matrix)
        n  == size
    IN  {[hider_probabilities |->
             IF hr.success THEN ExcludeLast(hr, n) ELSE old_hider,
          seeker_probabilities |->
             IF sr.success THEN ExcludeLast(sr, n) ELSE old_seeker,
          raised |->
             IF ~sr.success THEN "none"
             ELSE IF ~hr.success THEN "UnboundLocalError"   \* game_value not bound
             ELSE IF ~DualityAssert([num |-> -hr.fun, den |-> hr.den],
                                    [num |-> sr.fun, den |-> sr.den])
                  THEN "AssertionError"
             ELSE "none",
          gave_up |-> \/ ~hr.success /\ lp.hider # {}
                      \/ ~sr.success /\ lp.seeker # {},
          hider_success |-> hr.success, seeker_success |-> sr.success,
          game_value |-> IF hr.success THEN [num |-> -hr.fun, den |-> hr.den] ELSE NoValue,
          seeker_fun |-> IF sr.success THEN [num |-> sr.fun, den |-> sr.den] ELSE NoValue] :
           hr \in LinProgResults(lp.hider, may_fail),
           sr \in LinProgResults(lp.seeker, may_fail)}

\* reset_game on a game with the given configuration: place types, matrix,
\* zeroed scores, human_role = None, then the strategies
reset_game(size, prox, twod, nrows, ncols, old_hider, old_seeker, may_fail) ==
  UNION {LET M == generate_payoff_matrix(size, pt, prox, twod, nrows, ncols)
         IN  {[place_types |-> pt, payoff_matrix |-> M, solve |-> o] :
                o \in calculate_optimal_strategies(M, size, old_hider, old_seeker,
                                                       may_fail)} :
         pt \in generate_place_types(size)}

(***************************************************************************)
(* Rounds.  The score state is the record                                  *)
(* [human_score, computer_score, rounds_played, human_wins, computer_wins].*)
(***************************************************************************)
ZeroScores ==
  [human_score |-> 0, computer_score |-> 0, rounds_played |-> 0,
   human_wins |-> 0, computer_wins |-> 0]

\* update_scores keeping a zero-sum account: the loser is debited as well
update_scores_zero_sum(S, role, score) ==
  IF role = "hider"
  THEN IF score > 0
       THEN [S EXCEPT !.human_score = @ + score, !.computer_score = @ - score,
                      !.human_wins = @ + 1]
       ELSE [S EXCEPT !.computer_score = @ - score, !.human_score = @ + score,
                      !.computer_wins = @ + 1]
  ELSE IF score > 0
       THEN [S EXCEPT !.computer_score = @ + score, !.human_score = @ - score,
                      !.computer_wins = @ + 1]
       ELSE [S EXCEPT !.human_score = @ - score, !.computer_score = @ + score,
                      !.human_wins = @ + 1]

\* update_scores counting the win for the loser of the round
update_scores_loser(S, role, score) ==
  IF role = "hider"
  THEN IF score > 0
       THEN [S EXCEPT !.human_score = @ + score, !.computer_wins = @ + 1]
       ELSE [S EXCEPT !.computer_score = @ - score, !.human_wins = @ + 1]
  ELSE IF score > 0
       THEN [S EXCEPT !.computer_score = @ + score, !.human_wins = @ + 1]
       ELSE [S EXCEPT !.human_score = @ - score, !.computer_wins = @ + 1]

\* update_scores: the winner of the round is credited with |score|
update_scores(S, role, score) ==
  IF role = "hider"
  THEN IF score > 0
       THEN [S EXCEPT !.human_score = @ + score, !.human_wins = @ + 1]
       ELSE [S EXCEPT !.computer_score = @ - score, !.computer_wins = @ + 1]
  ELSE IF score > 0
       THEN [S EXCEPT !.computer_score = @ + score, !.computer_wins = @ + 1]
       ELSE [S EXCEPT !.human_score = @ - score, !.human_wins = @ + 1]

\* np.random.choice ignoring p: any index below a
np_random_choice_uniform(a, probs) ==
  IF \/ LenOf(probs) # a
     \/ \E i \in DOMAIN probs.x : probs.x[i] < 0
     \/ SumOver(probs.x, DOMAIN probs.x) # probs.den
  THEN [raised |-> "ValueError", values |-> {}]
  ELSE [raised |-> "none", values |-> 0..(a - 1)]

\* np.random.choice(a, p=probs): an index of non-zero probability; ValueError
\* when p has not a entries, has a negative entry or does not sum to 1
np_random_choice(a, probs) ==
  IF \/ LenOf(probs) # a
     \/ \E i \in DOMAIN probs.x : probs.x[i] < 0
     \/ SumOver(probs.x, DOMAIN probs.x) # probs.den
  THEN [raised |-> "ValueError", values |-> {}]
  ELSE [raised |-> "none", values |-> {i \in 0..(a - 1) : probs.x[i] > 0}]

\* get_computer_move: the strategy sampled and the moves it can give
get_computer_move(size, role, hider_probs, seeker_probs) ==
  LET from  == IF role = "hider" THEN "seeker_probabilities" ELSE "hider_probabilities"
      probs == IF role = "hider" THEN seeker_probs ELSE hider_probs
      drawn == IF ~IsSet(probs) THEN [raised |-> "AttributeError", values |-> {}]
               ELSE np_random_choice(size, probs)
  IN  [raised |-> drawn.raised, values |-> drawn.values, from |-> from]

NoRound ==
  [kind |-> "none", human_move |-> 0, computer_move |-> 0, hider_pos |-> 0,
   seeker_pos |-> 0, score |-> 0, sampled_from |-> "none", role |-> "None"]

\* play_round reading payoff_matrix[seeker_pos, hider_pos]
play_round_transposed(S, human_move, kind, size, types, matrix, role, hider_probs, seeker_probs) ==
  LET cm == get_computer_move(size, role, hider_probs, seeker_probs)
  IN  IF cm.raised # "none"
      THEN {[raised |-> cm.raised, S |-> S, round |-> NoRound]}
      ELSE {LET hider_pos  == IF role = "hider" THEN human_move ELSE computer_move
                seeker_pos == IF role = "hider" THEN computer_move ELSE human_move
                score      == matrix[seeker_pos][hider_pos]
                S1         == update_scores(S, role, score)
            IN  [raised |-> "none",
                 S |-> [S1 EXCEPT !.rounds_played = @ + 1],
                 round |-> [kind |-> kind, human_move |-> human_move,
                            computer_move |-> computer_move,
                            hider_pos |-> hider_pos, seeker_pos |-> seeker_pos,
                            score |-> score, sampled_from |-> cm.from,
                            role |-> role]] :
            computer_move \in cm.values}

\* play_round without rounds_played += 1
play_round_uncounted(S, human_move, kind, size, types, matrix, role, hider_probs, seeker_probs) ==
  LET cm == get_computer_move(size, role, hider_probs, seeker_probs)
  IN  IF cm.raised # "none"
      THEN {[raised |-> cm.raised, S |-> S, round |-> NoRound]}
      ELSE {LET hider_pos  == IF role = "hider" THEN human_move ELSE computer_move
                seeker_pos == IF role = "hider" THEN computer_move ELSE human_move
                score      == matrix[hider_pos][seeker_pos]
            IN  [raised |-> "none",
                 S |-> update_scores(S, role, score),
                 round |-> [kind |-> kind, human_move |-> human_move,
                            computer_move |-> computer_move,
                            hider_pos |-> hider_pos, seeker_pos |-> seeker_pos,
                            score |-> score, sampled_from |-> cm.from,
                            role |-> role]] :
            computer_move \in cm.values}

\* play_round(human_move) from score state S: every outcome as the exception
\* raised, the score state afterwards and the round that was played
play_round(S, human_move, kind, size, types, matrix, role, hider_probs, seeker_probs) ==
  LET cm == get_computer_move(size, role, hider_probs, seeker_probs)
  IN  IF cm.raised # "none"
      THEN {[raised |-> cm.raised, S |-> S, round |-> NoRound]}
      ELSE {LET hider_pos  == IF role = "hider" THEN human_move ELSE computer_move
                seeker_pos == IF role = "hider" THEN computer_move ELSE human_move
            IN  IF hider_pos \notin DOMAIN matrix \/ seeker_pos \notin DOMAIN matrix
                THEN [raised |-> "IndexError", S |-> S, round |-> NoRound]
                ELSE LET score == matrix[hider_pos][seeker_pos]
                         S1    == update_scores(S, role, score)
                         S2    == [S1 EXCEPT !.rounds_played = @ + 1]
                     IN  [raised |-> IF hider_pos \in DOMAIN types
                                     THEN "none" ELSE "IndexError",   \* format_result
                          S |-> S2,
                          round |-> [kind |-> kind, human_move |-> human_move,
                                     computer_move |-> computer_move,
                                     hider_pos |-> hider_pos, seeker_pos |-> seeker_pos,
                                     score |-> score, sampled_from |-> cm.from,
                                     role |-> role]] :
            computer_move \in cm.values}

\* the loop of run_simulation: k more rounds from score state S, each with
\* human_move = random.randint(0, world_size - 1); stops at the first
\* exception.  last is the round played last.
RECURSIVE SimulationLoop(_, _, _, _, _, _, _, _, _)
SimulationLoop(S, last, k, size, types, matrix, role, hider_probs, seeker_probs) ==
  IF k = 0 THEN {[raised |-> "none", S |-> S, round |-> last]}
  ELSE UNION {
         UNION {IF o.raised # "none" THEN {o}
                ELSE SimulationLoop(o.S, o.round, k - 1, size, types, matrix, role,
                                    hider_probs, seeker_probs) :
                o \in play_round(S, human_move, "simulated", size, types, matrix, role,
                                 hider_probs, seeker_probs)} :
         human_move \in 0..(size - 1)}

\* run_simulation without the restoring loop at its end
run_simulation_unrestored(S, rounds, size, types, matrix, role, hider_probs, seeker_probs) ==
  {[raised |-> o.raised, S |-> o.S, round |-> o.round,
    results |-> [o.S EXCEPT !.rounds_played = rounds]] :
     o \in SimulationLoop(ZeroScores, NoRound, rounds, size, types, matrix, role,
                          hider_probs, seeker_probs)}

\* run_simulation(rounds) from the live score state S: the live scores are
\* saved, zeroed, the rounds played, and the saved scores put back.  An
\* exception leaves through the loop, with the scores as the loop left them.
run_simulation(S, rounds, size, types, matrix, role, hider_probs, seeker_probs) ==
  LET original_state == S
  IN  {IF o.raised # "none"
       THEN [raised |-> o.raised, S |-> o.S, round |-> o.round, results |-> ZeroScores]
       ELSE [raised |-> "none", S |-> original_state, round |-> o.round,
             results |-> [o.S EXCEPT !.rounds_played = rounds]] :
       o \in SimulationLoop(ZeroScores, NoRound, rounds, size, types, matrix, role,
                            hider_probs, seeker_probs)}

\* save_state: the dictionary written to the file; tolist() turns the matrix
\* into a list of rows
tolist(matrix) == Fcn([h \in DOMAIN matrix |-> Fcn([s \in DOMAIN matrix[h] |-> matrix[h][s]])])
save_state(size, prox, twod, types, matrix, role, S) ==
  [exists |-> TRUE,
   world_size |-> size, use_proximity |-> prox, is_2d |-> twod,
   place_types |-> types, payoff_matrix |-> tolist(matrix), human_role |-> role,
   human_score |-> S.human_score, computer_score |-> S.computer_score,
   rounds_played |-> S.rounds_played,
   human_wins |-> S.human_wins, computer_wins |-> S.computer_wins]

\* np.array(list of rows)
np_array(lists) == Fcn([h \in DOMAIN lists |-> Fcn(lists[h])])

(***************************************************************************)
(* The program: HideAndSeekGUI (src/GUI.py) holding one HideAndSeekGame.   *)
(* Every exception that leaves a handler is swallowed: the handlers catch  *)
(* some themselves, Tk reports the others, and the window stays open.      *)
(***************************************************************************)
VARIABLES
  game,                  \* self.game is not None
  screen,                \* "setup", "game", or "partial": create_game_interface
                         \* raised after the buttons, before the move controls
  move_values,           \* number of positions offered by the move combobox
  world_size, use_proximity, is_2d, rows, cols,
  place_types, payoff_matrix, human_role,
  human_score, computer_score, rounds_played, human_wins, computer_wins,
  hider_probabilities, seeker_probabilities,
  saved,                 \* the save file: NoFile or the dictionary in it
  last_op,               \* the handler that ran last, the exception it met
  last_round,            \* the round it played last (NoRound if it played none)
  last_solve,            \* what its calculate_optimal_strategies did
  solver_gave_up         \* linprog has given up once: it does so in at most
                         \* one solve of a run

gui_vars    == <<game, screen, move_values>>
config_vars == <<world_size, use_proximity, is_2d, rows, cols>>
world_vars  == <<place_types, payoff_matrix>>
score_vars  == <<human_score, computer_score, rounds_played, human_wins, computer_wins>>
strat_vars  == <<hider_probabilities, seeker_probabilities>>
vars == <<gui_vars, config_vars, world_vars, human_role, score_vars, strat_vars,
          saved, last_op, last_round, last_solve, solver_gave_up>>

Scores ==
  [human_score |-> human_score, computer_score |-> computer_score,
   rounds_played |-> rounds_played, human_wins |-> human_wins,
   computer_wins |-> computer_wins]

SetScores(S) ==
  /\ human_score' = S.human_score
  /\ computer_score' = S.computer_score
  /\ rounds_played' = S.rounds_played
  /\ human_wins' = S.human_wins
  /\ computer_wins' = S.computer_wins

NoFile  == [exists |-> FALSE]
NoSolve ==
  [raised |-> "none", hider_success |-> FALSE, seeker_success |-> FALSE,
   game_value |-> NoValue, seeker_fun |-> NoValue]
\* the two values are kept when both programs were solved
SolveInfo(o) ==
  [raised |-> o.raised, hider_success |-> o.hider_success,
   seeker_success |-> o.seeker_success,
   game_value |-> IF o.seeker_success THEN o.game_value ELSE NoValue,
   seeker_fun |-> IF o.hider_success THEN o.seeker_fun ELSE NoValue]

\* arg: the rounds argument of run_simulation, 0 for the other handlers
Op(name, raised, arg) == [name |-> name, raised |-> raised, arg |-> arg]

\* the window after HideAndSeekGUI.__init__: no game, the setup frame
NoGame ==
  /\ game = FALSE
  /\ screen = "setup"
  /\ move_values = 0
  /\ world_size = 0 /\ use_proximity = FALSE /\ is_2d = FALSE /\ rows = 0 /\ cols = 0
  /\ place_types = <<>> /\ payoff_matrix = <<>>
  /\ human_role = "None"
  /\ human_score = 0 /\ computer_score = 0 /\ rounds_played = 0
  /\ human_wins = 0 /\ computer_wins = 0
  /\ hider_probabilities = Unset /\ seeker_probabilities = Unset
  /\ last_op = Op("init", "none", 0)
  /\ last_round = NoRound
  /\ last_solve = NoSolve
  /\ solver_gave_up = FALSE

Init == NoGame /\ saved = NoFile

\* create_game_interface runs to its end: the strategy charts need both
\* strategies, with one bar per position (1D) or one entry per cell (2D)
InterfaceOK(n, twod, hider_probs, seeker_probs) ==
  /\ IsSet(hider_probs) /\ IsSet(seeker_probs)
  /\ IF twod THEN LenOf(hider_probs) >= n /\ LenOf(seeker_probs) >= n
     ELSE LenOf(hider_probs) = n /\ LenOf(seeker_probs) = n

\* what the setup frame can hold: the size spinbox, the grid-size text
LinearSizes == {1} \cup WorldSizes
GridInputs ==
  {[well_formed |-> FALSE, rows |-> 0, cols |-> 0]}
  \cup {[well_formed |-> TRUE, rows |-> r, cols |-> c] : r \in 1..2, c \in 1..3}

\* the checks of start_game; "" when the configuration is accepted
StartGameError(dim, linear_size, grid) ==
  IF dim
  THEN IF ~grid.well_formed THEN "Invalid grid size format"
       ELSE IF grid.rows < 2 \/ grid.cols < 2 THEN "Grid dimensions must be at least 2x2."
       ELSE IF grid.rows # grid.cols THEN "Grid must be square"
       ELSE ""
  ELSE IF linear_size < 2 THEN "World size must be at least 2." ELSE ""

StartInputs ==
  {[dim |-> FALSE, linear_size |-> n, grid |-> [well_formed |-> FALSE, rows |-> 0, cols |-> 0]] :
      n \in LinearSizes}
  \cup {[dim |-> TRUE, linear_size |-> 0, grid |-> g] : g \in GridInputs}

\* start_game dropping the game it had when it rejects the configuration
start_game_clearing(inputs) ==
  /\ screen = "setup"
  /\ \E inp \in inputs, prox \in BOOLEAN, role \in {"hider", "seeker"} :
       LET err == StartGameError(inp.dim, inp.linear_size, inp.grid)
           n   == IF inp.dim THEN inp.grid.rows * inp.grid.cols ELSE inp.linear_size
       IN  IF err # ""
           THEN /\ last_op' = Op("start_game", "ValueError", 0)
                /\ last_solve' = NoSolve
                /\ game' = FALSE
                /\ UNCHANGED <<screen, move_values, config_vars, world_vars, human_role,
                               score_vars, strat_vars, solver_gave_up>>
           ELSE LET rows0 == IF inp.dim THEN GridRows(n, ISqrt(n)) ELSE 1
                    cols0 == IF inp.dim THEN n \div rows0 ELSE n
                IN  \E o \in reset_game(n, prox, inp.dim, rows0, cols0, Unset, Unset,
                                        ~solver_gave_up) :
                      /\ solver_gave_up' = (solver_gave_up \/ o.solve.gave_up)
                      /\ last_solve' = SolveInfo(o.solve)
                      /\ last_op' = Op("start_game", o.solve.raised, 0)
                      /\ IF o.solve.raised # "none"
                         THEN UNCHANGED <<gui_vars, config_vars, world_vars, human_role,
                                          score_vars, strat_vars>>
                         ELSE /\ game' = TRUE
                              /\ world_size' = n
                              /\ use_proximity' = prox
                              /\ is_2d' = inp.dim
                              /\ rows' = IF inp.dim THEN inp.grid.rows ELSE rows0
                              /\ cols' = IF inp.dim THEN inp.grid.cols ELSE cols0
                              /\ place_types' = o.place_types
                              /\ payoff_matrix' = o.payoff_matrix
                              /\ SetScores(ZeroScores)
                              /\ human_role' = role
                              /\ hider_probabilities' = o.solve.hider_probabilities
                              /\ seeker_probabilities' = o.solve.seeker_probabilities
                              /\ LET ok == InterfaceOK(n, inp.dim,
                                                       o.solve.hider_probabilities,
                                                       o.solve.seeker_probabilities)
                                 IN  /\ screen' = IF ok THEN "game" ELSE "partial"
                                     /\ move_values' = IF ok THEN n ELSE 0
  /\ last_round' = NoRound
  /\ saved' = saved

\* start_game (GUI.py) with the setup frame holding one of inputs: validate,
\* construct the game, set the grid and the role, build the game interface.
\* A ValueError is shown in a dialog; self.game changes only when the
\* constructor returns.
start_game(inputs) ==
  /\ screen = "setup"
  /\ \E inp \in inputs, prox \in BOOLEAN, role \in {"hider", "seeker"} :
       LET err == StartGameError(inp.dim, inp.linear_size, inp.grid)
           n   == IF inp.dim THEN inp.grid.rows * inp.grid.cols ELSE inp.linear_size
       IN  IF err # ""
           THEN /\ last_op' = Op("start_game", "ValueError", 0)
                /\ last_solve' = NoSolve
                /\ UNCHANGED <<gui_vars, config_vars, world_vars, human_role, score_vars,
                               strat_vars, solver_gave_up>>
           ELSE LET rows0 == IF inp.dim THEN GridRows(n, ISqrt(n)) ELSE 1
                    cols0 == IF inp.dim THEN n \div rows0 ELSE n
                IN  \E o \in reset_game(n, prox, inp.dim, rows0, cols0, Unset, Unset,
                                        ~solver_gave_up) :
                      /\ solver_gave_up' = (solver_gave_up \/ o.solve.gave_up)
                      /\ last_solve' = SolveInfo(o.solve)
                      /\ last_op' = Op("start_game", o.solve.raised, 0)
                      /\ IF o.solve.raised # "none"
                         THEN UNCHANGED <<gui_vars, config_vars, world_vars, human_role,
                                          score_vars, strat_vars>>
                         ELSE /\ game' = TRUE
                              /\ world_size' = n
                              /\ use_proximity' = prox
                              /\ is_2d' = inp.dim
                              /\ rows' = IF inp.dim THEN inp.grid.rows ELSE rows0
                              /\ cols' = IF inp.dim THEN inp.grid.cols ELSE cols0
                              /\ place_types' = o.place_types
                              /\ payoff_matrix' = o.payoff_matrix
                              /\ SetScores(ZeroScores)
                              /\ human_role' = role
                              /\ hider_probabilities' = o.solve.hider_probabilities
                              /\ seeker_probabilities' = o.solve.seeker_probabilities
                              /\ LET ok == InterfaceOK(n, inp.dim,
                                                       o.solve.hider_probabilities,
                                                       o.solve.seeker_probabilities)
                                 IN  /\ screen' = IF ok THEN "game" ELSE "partial"
                                     /\ move_values' = IF ok THEN n ELSE 0
  /\ last_round' = NoRound
  /\ saved' = saved

\* Start Game with anything the setup frame can hold
StartGame == start_game(StartInputs)

\* the New Game button: back to the setup frame, the game stays
NewGame ==
  /\ screen \in {"game", "partial"}
  /\ screen' = "setup"
  /\ move_values' = 0
  /\ last_op' = Op("new_game", "none", 0)
  /\ last_round' = NoRound /\ last_solve' = NoSolve
  /\ UNCHANGED <<game, config_vars, world_vars, human_role, score_vars, strat_vars, saved,
                 solver_gave_up>>

\* make_move: the Submit button, with the position chosen in the combobox
MakeMove ==
  /\ screen = "game"
  /\ rounds_played < MaxRounds
  /\ computer_wins < MaxRounds      \* a load that fails keeps computer_wins
  /\ \E human_move \in 0..(move_values - 1) :
       IF ~(0 <= human_move /\ human_move < world_size)
       THEN /\ last_op' = Op("make_move", "ValueError", 0)
            /\ last_round' = NoRound
            /\ UNCHANGED score_vars
       ELSE \E o \in play_round(Scores, human_move, "live", world_size, place_types,
                                payoff_matrix, human_role,
                                hider_probabilities, seeker_probabilities) :
              /\ SetScores(o.S)
              /\ last_round' = o.round
              /\ last_op' = Op("make_move", o.raised, 0)
  /\ last_solve' = NoSolve
  /\ UNCHANGED <<gui_vars, config_vars, world_vars, human_role, strat_vars, saved,
                 solver_gave_up>>

\* run_simulation: the Simulate button; the report goes to a dialog
Simulate ==
  /\ screen \in {"game", "partial"}
  /\ \E rounds \in SimulationRounds :
       \E o \in {[raised |-> r.raised, S |-> r.S] :
                   r \in run_simulation(Scores, rounds, world_size, place_types,
                                        payoff_matrix, human_role,
                                        hider_probabilities, seeker_probabilities)} :
         /\ SetScores(o.S)
         /\ last_op' = Op("run_simulation", o.raised, rounds)
  /\ last_round' = NoRound
  /\ last_solve' = NoSolve
  /\ UNCHANGED <<gui_vars, config_vars, world_vars, human_role, strat_vars, saved,
                 solver_gave_up>>

\* reset_game (GUI): game.reset_game(), then the interface is rebuilt
ResetGame ==
  /\ screen \in {"game", "partial"}
  /\ game
  /\ \E o \in reset_game(world_size, use_proximity, is_2d, rows, cols,
                         hider_probabilities, seeker_probabilities, ~solver_gave_up) :
       /\ solver_gave_up' = (solver_gave_up \/ o.solve.gave_up)
       /\ place_types' = o.place_types
       /\ payoff_matrix' = o.payoff_matrix
       /\ SetScores(ZeroScores)
       /\ human_role' = "None"
       /\ hider_probabilities' = o.solve.hider_probabilities
       /\ seeker_probabilities' = o.solve.seeker_probabilities
       /\ last_solve' = SolveInfo(o.solve)
       /\ last_op' = Op("reset_game", o.solve.raised, 0)
       /\ IF o.solve.raised # "none"
          THEN UNCHANGED <<screen, move_values>>
          ELSE LET ok == InterfaceOK(world_size, is_2d, o.solve.hider_probabilities,
                                     o.solve.seeker_probabilities)
               IN  /\ screen' = IF ok THEN "game" ELSE "partial"
                   /\ move_values' = IF ok THEN world_size ELSE 0
  /\ last_round' = NoRound
  /\ UNCHANGED <<game, config_vars, saved>>

\* save_game zeroing the scores after writing the file
SaveGame_zeroing ==
  /\ screen \in {"game", "partial"}
  /\ game
  /\ saved' = save_state(world_size, use_proximity, is_2d, place_types, payoff_matrix,
                         human_role, Scores)
  /\ SetScores(ZeroScores)
  /\ last_op' = Op("save_game", "none", 0)
  /\ last_round' = NoRound /\ last_solve' = NoSolve
  /\ UNCHANGED <<gui_vars, config_vars, world_vars, human_role, strat_vars,
                 solver_gave_up>>

\* save_game: the Save button with a file name chosen in the dialog
SaveGame ==
  /\ screen \in {"game", "partial"}
  /\ game
  /\ saved' = save_state(world_size, use_proximity, is_2d, place_types, payoff_matrix,
                         human_role, Scores)
  /\ last_op' = Op("save_game", "none", 0)
  /\ last_round' = NoRound /\ last_solve' = NoSolve
  /\ UNCHANGED <<gui_vars, config_vars, world_vars, human_role, score_vars, strat_vars,
                 solver_gave_up>>

\* load_game builds HideAndSeekGame(4) when there is no game yet
TemporaryWorldSize == 4

\* the game load_state works on, as what a failing load leaves of it: the
\* current game, or the temporary one (whose constructor may raise)
GameToLoadInto ==
  IF game
  THEN {[raised |-> "none", gave_up |-> FALSE,
         hider_probabilities |-> hider_probabilities,
         seeker_probabilities |-> seeker_probabilities,
         computer_wins |-> computer_wins]}
  ELSE {[raised |-> o.solve.raised, gave_up |-> o.solve.gave_up,
         hider_probabilities |-> o.solve.hider_probabilities,
         seeker_probabilities |-> o.solve.seeker_probabilities,
         computer_wins |-> 0] :
           o \in reset_game(TemporaryWorldSize, FALSE, FALSE, 1, TemporaryWorldSize,
                            Unset, Unset, ~solver_gave_up)}

\* load_game: the Load button (either frame) with the save file chosen.
\* load_state assigns the fields from the file in the order of its
\* statements, then solves; state['computer_wins'] is read last, and a file
\* without that key ends the load there with KeyError.  Any exception is
\* shown in a dialog and the frame on screen stays.
LoadGame ==
  /\ saved.exists
  /\ \E t \in GameToLoadInto :
       IF t.raised # "none"
       THEN /\ last_op' = Op("load_game", t.raised, 0)
            /\ last_solve' = NoSolve
            /\ solver_gave_up' = (solver_gave_up \/ t.gave_up)
            /\ UNCHANGED <<gui_vars, config_vars, world_vars, human_role, score_vars,
                           strat_vars>>
       ELSE LET state == saved
                n     == state.world_size
                M     == np_array(state.payoff_matrix)
            IN  /\ game' = TRUE
                /\ world_size' = n
                /\ use_proximity' = state.use_proximity
                /\ is_2d' = state.is_2d
                /\ rows' = IF state.is_2d THEN ISqrt(n) ELSE 1
                /\ cols' = IF state.is_2d THEN n \div ISqrt(n) ELSE n
                /\ place_types' = state.place_types
                /\ payoff_matrix' = M
                /\ human_role' = state.human_role
                /\ human_score' = state.human_score
                /\ computer_score' = state.computer_score
                /\ rounds_played' = state.rounds_played
                /\ human_wins' = state.human_wins
                /\ IF "computer_wins" \notin DOMAIN state
                   THEN /\ computer_wins' = t.computer_wins
                        /\ hider_probabilities' = t.hider_probabilities
                        /\ seeker_probabilities' = t.seeker_probabilities
                        /\ solver_gave_up' = (solver_gave_up \/ t.gave_up)
                        /\ last_solve' = NoSolve
                        /\ last_op' = Op("load_game", "KeyError", 0)
                        /\ UNCHANGED <<screen, move_values>>
                   ELSE /\ computer_wins' = state.computer_wins
                        /\ \E o \in calculate_optimal_strategies(M, n, t.hider_probabilities,
                                                                 t.seeker_probabilities,
                                                                 ~solver_gave_up /\ ~t.gave_up) :
                             /\ solver_gave_up' = (solver_gave_up \/ t.gave_up \/ o.gave_up)
                             /\ hider_probabilities' = o.hider_probabilities
                             /\ seeker_probabilities' = o.seeker_probabilities
                             /\ last_solve' = SolveInfo(o)
                             /\ LET ok == InterfaceOK(n, state.is_2d, o.hider_probabilities,
                                                      o.seeker_probabilities)
                                IN  IF o.raised # "none"
                                    THEN /\ last_op' = Op("load_game", o.raised, 0)
                                         /\ UNCHANGED <<screen, move_values>>
                                    ELSE /\ last_op' = Op("load_game",
                                                          IF ok THEN "none" ELSE "ChartError", 0)
                                         /\ screen' = IF ok THEN "game" ELSE "partial"
                                         /\ move_values' = IF ok THEN n ELSE 0
  /\ last_round' = NoRound
  /\ saved' = saved

(***************************************************************************)
(* Specifications.  Each explores whole handlers; they differ in the       *)
(* buttons pressed and in the worlds entered in the setup frame.           *)
(*   Spec       one game in a world of 2 or 3 positions: start, rounds,    *)
(*              simulations, resets.                                       *)
(*   SpecPlay   one game in any world (2 to 4 positions, line or grid):    *)
(*              start, rounds, simulations.                                *)
(*   SpecFiles  a window opened with a save file of an earlier run: load,  *)
(*              rounds, simulations, save, new game.                       *)
(*   SpecEdited a window opened with a save file that was edited by hand:  *)
(*              start, load, rounds.                                       *)
(*   SpecDirect a game of 5 positions built by the constructor itself,     *)
(*              line or grid: rounds, save, load.                          *)
(*   SpecSetup  games started one after the other from the setup frame:    *)
(*              start, rounds, new game.                                   *)
(***************************************************************************)
SmallWorldSizes == {2, 3}
SmallInputs ==
  {i \in StartInputs :
     \/ StartGameError(i.dim, i.linear_size, i.grid) # ""
     \/ ~i.dim /\ i.linear_size \in SmallWorldSizes}

StartSmallGame == start_game(SmallInputs)

Next ==
  \/ StartSmallGame
  \/ MakeMove
  \/ Simulate
  \/ ResetGame

Spec == Init /\ [][Next]_vars

NextPlay ==
  \/ StartGame
  \/ MakeMove
  \/ Simulate

SpecPlay == Init /\ [][NextPlay]_vars

\* the files an earlier run can have left: a 3-position world without
\* proximity, saved after one round
EarlierWorldSizes == {3}
EarlierSaves ==
  UNION {UNION {UNION {
    {save_state(n, FALSE, FALSE, g.place_types, g.payoff_matrix, role, o.S) :
       o \in {r \in play_round(ZeroScores, human_move, "live", n, g.place_types,
                               g.payoff_matrix, role, g.solve.hider_probabilities,
                               g.solve.seeker_probabilities) : r.raised = "none"}} :
    human_move \in 0..(n - 1), role \in {"hider", "seeker"}} :
    g \in {r \in reset_game(n, FALSE, FALSE, 1, n, Unset, Unset, FALSE) :
             r.solve.hider_success /\ r.solve.seeker_success /\ r.solve.raised = "none"}} :
    n \in EarlierWorldSizes}

InitFiles == NoGame /\ saved \in EarlierSaves

NextFiles ==
  \/ LoadGame
  \/ MakeMove
  \/ Simulate
  \/ SaveGame
  \/ NewGame

SpecFiles == InitFiles /\ [][NextFiles]_vars

\* files changed outside the program: of the files an earlier run left for
\* the place types 0, 1, 2, the last key removed, or the matrix replaced by
\* the matrix of the place types in reverse order
Reversed(types, n) == [i \in 0..(n - 1) |-> types[n - 1 - i]]
EditedSaves ==
  LET base == {f \in EarlierSaves : \A i \in DOMAIN f.place_types : f.place_types[i] = i}
  IN  {[k \in DOMAIN f \ {"computer_wins"} |-> f[k]] : f \in base}
      \cup {[f EXCEPT !.payoff_matrix =
               tolist(generate_payoff_matrix(f.world_size,
                                             Reversed(f.place_types, f.world_size),
                                             f.use_proximity, f.is_2d, 1, f.world_size))] :
              f \in base}

InitEdited == NoGame /\ saved \in EditedSaves

NextEdited ==
  \/ StartSmallGame
  \/ LoadGame
  \/ MakeMove

SpecEdited == InitEdited /\ [][NextEdited]_vars

\* the class used without the setup frame: a game built by the constructor and
\* shown in the game frame, then played, saved and loaded
InitDirect ==
  \E w \in DirectWorlds, role \in {"hider", "seeker"} :
    \E o \in calculate_optimal_strategies(
               generate_payoff_matrix(w.world_size, w.place_types, w.use_proximity,
                                      w.is_2d, w.rows, w.cols),
               w.world_size, Unset, Unset, FALSE) :
      /\ o.raised = "none"
      /\ game = TRUE /\ screen = "game" /\ move_values = w.world_size
      /\ world_size = w.world_size /\ use_proximity = w.use_proximity /\ is_2d = w.is_2d
      /\ rows = w.rows /\ cols = w.cols
      /\ place_types = w.place_types
      /\ payoff_matrix = generate_payoff_matrix(w.world_size, w.place_types, w.use_proximity,
                                                w.is_2d, w.rows, w.cols)
      /\ human_role = role
      /\ human_score = 0 /\ computer_score = 0 /\ rounds_played = 0
      /\ human_wins = 0 /\ computer_wins = 0
      /\ hider_probabilities = o.hider_probabilities
      /\ seeker_probabilities = o.seeker_probabilities
      /\ saved = NoFile
      /\ last_op = Op("init", "none", 0)
      /\ last_round = NoRound
      /\ last_solve = SolveInfo(o)
      /\ solver_gave_up = FALSE

NextDirect ==
  \/ MakeMove
  \/ SaveGame
  \/ LoadGame

SpecDirect == InitDirect /\ [][NextDirect]_vars

\* the setup frame visited again: Start Game, rounds, New Game, Start Game
NextSetup ==
  \/ StartSmallGame
  \/ MakeMove
  \/ NewGame

SpecSetup == Init /\ [][NextSetup]_vars

(***************************************************************************)
(* Properties.  A round a handler played is read from last_round, the      *)
(* handler and its exit from last_op, the solve it made from last_solve.   *)
(***************************************************************************)
LiveRound == last_round.kind = "live"
Simulated == last_op.name = "run_simulation"
Solved    == last_solve.hider_success /\ last_solve.seeker_success

\* the strategy of the role the human is not playing
OpposingStrategy ==
  IF human_role = "hider" THEN seeker_probabilities ELSE hider_probabilities

\* C1: zero-sum accounting - after every round played with make_move, from
\* construction or a reset and for either role, human_score + computer_score = 0.
C1_ZeroSum ==
  (last_op.name = "make_move" /\ last_op.raised = "none")
     => human_score + computer_score = 0

\* C2: the payoff of a round is payoff_matrix[hider_pos][seeker_pos], with the
\* human move as hider_pos and the computer move as seeker_pos when the human
\* is the hider and the other way round otherwise, and it is this value the
\* scores move by: the winner's score grows by its magnitude, the other
\* score stays.
C2_PayoffFromMatrix ==
  [][LiveRound'
       => LET r  == last_round'
              hp == IF human_role = "hider" THEN r.human_move ELSE r.computer_move
              sp == IF human_role = "hider" THEN r.computer_move ELSE r.human_move
              p  == payoff_matrix[hp][sp]
          IN  /\ r.hider_pos = hp /\ r.seeker_pos = sp
              /\ r.score = p
              /\ human_score' >= human_score /\ computer_score' >= computer_score
              /\ (human_score' - human_score) + (computer_score' - computer_score)
                    = Abs(p)]_vars

\* a round whose two positions differ and whose payoff is not the payoff of
\* the positions exchanged
C2_Witness ==
  /\ LiveRound /\ human_role = "seeker"
  /\ last_round.hider_pos = last_round.computer_move
  /\ last_round.hider_pos # last_round.seeker_pos
  /\ payoff_matrix[last_round.hider_pos][last_round.seeker_pos]
       # payoff_matrix[last_round.seeker_pos][last_round.hider_pos]
  /\ human_score + computer_score = Abs(last_round.score)

\* C3: every round adds 1 to rounds_played and 1 to exactly one win counter:
\* that of the side playing hider when the payoff is > 0, that of the side
\* playing seeker when the payoff is <= 0.
C3_RoundCounted ==
  [][LiveRound'
       => LET human_is_hider == human_role = "hider"
              hider_won      == last_round'.score > 0
              human_won      == hider_won = human_is_hider
          IN  /\ rounds_played' = rounds_played + 1
              /\ human_wins' = human_wins + (IF human_won THEN 1 ELSE 0)
              /\ computer_wins' = computer_wins + (IF human_won THEN 0 ELSE 1)]_vars

\* a second round, won by the seeker side, after a round won by the other player
C3_Witness ==
  /\ LiveRound /\ last_op.name = "make_move"
  /\ last_round.score <= 0
  /\ rounds_played = 2 /\ human_wins = 1 /\ computer_wins = 1

\* C4: after construction and after every completed reset_game, round and
\* run_simulation, human_wins + computer_wins = rounds_played.
C4_WinsAreRounds ==
  last_op.raised = "none" => human_wins + computer_wins = rounds_played

\* a simulation of one round completed after two live rounds
C4_Witness ==
  /\ Simulated /\ last_op.raised = "none" /\ last_op.arg = 1
  /\ rounds_played = 2 /\ human_wins + computer_wins = 2

\* C5: a run_simulation that returns normally leaves human_score,
\* computer_score, rounds_played, human_wins and computer_wins as they were
\* before the call, whatever the number of rounds and the state before.
C5_SimulationPure ==
  [][(Simulated' /\ last_op'.raised = "none") => UNCHANGED score_vars]_vars

\* a simulation that played a round, on a game with a live round behind it
C5_Witness ==
  /\ Simulated /\ last_op.raised = "none" /\ last_op.arg >= 1
  /\ rounds_played >= 1 /\ human_score + computer_score > 0

\* C6: a run_simulation left by an exception raised in one of its rounds
\* still leaves the five score fields as they were before the call.
C6_RestoredOnException ==
  [][(Simulated' /\ last_op'.raised # "none") => UNCHANGED score_vars]_vars

\* C7: in every round a simulation plays, the hider position has non-zero
\* probability in hider_probabilities and the seeker position has non-zero
\* probability in seeker_probabilities.
C7_SimulationPlaysStrategies ==
  (game /\ screen = "game" /\ IsSet(hider_probabilities) /\ IsSet(seeker_probabilities))
     => \A rounds \in SimulationRounds :
          \A o \in run_simulation(Scores, rounds, world_size, place_types,
                                  payoff_matrix, human_role,
                                  hider_probabilities, seeker_probabilities) :
             o.round.kind = "simulated"
               => /\ hider_probabilities.x[o.round.hider_pos] > 0
                  /\ seeker_probabilities.x[o.round.seeker_pos] > 0

\* C8: the computer's move in a round is sampled from seeker_probabilities
\* when the human is the hider and from hider_probabilities when the human is
\* the seeker, and is an index in 0..world_size-1 of non-zero probability in
\* that strategy.
C8_ComputerMoveFromOpposite ==
  LiveRound
    => /\ last_round.sampled_from =
            (IF human_role = "hider" THEN "seeker_probabilities"
                                     ELSE "hider_probabilities")
       /\ last_round.computer_move \in 0..(world_size - 1)
       /\ last_round.computer_move \in DOMAIN OpposingStrategy.x
       /\ OpposingStrategy.x[last_round.computer_move] > 0

\* a round against a strategy that never plays some position
C8_Witness ==
  /\ LiveRound /\ human_role = "hider"
  /\ \E i \in DOMAIN seeker_probabilities.x : seeker_probabilities.x[i] = 0
  /\ seeker_probabilities.x[last_round.computer_move] > 0

\* C9: whenever both programs are solved, the value of the hider's program
\* and the value of the seeker's program differ by less than 1e-6.
C9_Duality ==
  Solved => FracAbsDiffLessMicro(last_solve.game_value.num, last_solve.game_value.den,
                                 last_solve.seeker_fun.num, last_solve.seeker_fun.den,
                                 PayoffScale)

\* a solved 4-position world with proximity, whose value is not a whole
\* number of payoff units
C9_Witness ==
  /\ Solved /\ last_op.name = "start_game"
  /\ world_size = 4 /\ use_proximity
  /\ last_solve.game_value.num % last_solve.game_value.den # 0

\* a probability vector of length n: no negative entry (which is no entry
\* below -1e-9), entries summing to 1 exactly (which is within 1e-6)
ProbabilityVector(probs, n) ==
  /\ IsSet(probs)
  /\ DOMAIN probs.x = 0..(n - 1)
  /\ \A i \in DOMAIN probs.x : probs.x[i] >= 0
  /\ SumOver(probs.x, DOMAIN probs.x) = probs.den

\* C10: after a solve in which both programs succeed, hider_probabilities
\* and seeker_probabilities are probability vectors of length world_size.
C10_ProbabilityVectors ==
  (Solved /\ last_op.raised = "none")
     => /\ ProbabilityVector(hider_probabilities, world_size)
        /\ ProbabilityVector(seeker_probabilities, world_size)

\* a solved grid world whose hider strategy is mixed
C10_Witness ==
  /\ Solved /\ last_op.raised = "none"
  /\ world_size = 4 /\ is_2d
  /\ \E i \in DOMAIN hider_probabilities.x :
        0 < hider_probabilities.x[i] /\ hider_probabilities.x[i] < hider_probabilities.den

\* the handler that ran last called calculate_optimal_strategies on a finite
\* matrix: a start that passed validation, or a reset
SolveRan ==
  last_op.name \in {"start_game", "reset_game"} /\ last_op.raised # "ValueError"

\* probs is the probability part of an optimal solution in opt
SolvedFrom(probs, opt, n) ==
  IsSet(probs) /\ \E r \in opt : probs = ExcludeLast(r, n)

\* both strategies are solutions of the programs of the matrix the game holds
StrategiesFromMatrix ==
  /\ SolvedFrom(hider_probabilities, LPOf(payoff_matrix).hider, world_size)
  /\ SolvedFrom(seeker_probabilities, LPOf(payoff_matrix).seeker, world_size)

\* C11: when one of the two programs is not solved, the handler is left by
\* an error, and the next thing that happens is not a round.
C11_UnsolvableReported ==
  [][(SolveRan /\ ~Solved)
       => (last_op.raised # "none" /\ ~(last_op'.name = "make_move" /\ LiveRound'))]_vars

\* C12: a solve that stores a strategy has evaluated the duality check (both
\* programs were solved), and the check raises exactly when the values differ
\* by 1e-6 or more.
C12_DualityChecked ==
  SolveRan
    => /\ (last_solve.hider_success \/ last_solve.seeker_success) => Solved
       /\ Solved => ((last_solve.raised # "none")
                       = ~DualityAssert(last_solve.game_value, last_solve.seeker_fun))

\* C13: in every state with a game, both strategies were computed from the
\* payoff matrix the game holds.
C13_StrategiesCurrent ==
  game => StrategiesFromMatrix

\* C17: after reset_game returns the five score fields are 0, payoff_matrix
\* is the matrix of the place types now held, and both strategies are
\* solutions for that matrix; in no state of a game does payoff_matrix
\* differ from the matrix of place_types.
C17_ResetRebuildsAll ==
  /\ game => payoff_matrix = generate_payoff_matrix(world_size, place_types, use_proximity,
                                                    is_2d, rows, cols)
  /\ (last_op.name = "reset_game" /\ last_op.raised = "none")
       => /\ Scores = ZeroScores
          /\ StrategiesFromMatrix

\* C18: a round, a simulation and a save leave the world, the role and the
\* strategies as they were, a save leaves the scores too, and the matrix
\* changes only in a start, a reset or a load.
C18_Frame ==
  [][/\ last_op'.name \in {"make_move", "run_simulation", "save_game"}
          => UNCHANGED <<world_size, use_proximity, is_2d, place_types, payoff_matrix,
                         human_role, strat_vars>>
     /\ last_op'.name = "save_game" => UNCHANGED score_vars
     /\ payoff_matrix' # payoff_matrix
          => last_op'.name \in {"start_game", "reset_game", "load_game"}]_vars

\* a save made after a loaded game played a round
C18_Witness ==
  /\ last_op.name = "save_game" /\ saved.exists
  /\ rounds_played = 2 /\ saved.rounds_played = 2
  /\ human_score + computer_score > 0

\* C19: every matrix generate_payoff_matrix builds for a game started from
\* the setup frame - every world, every assignment of place types, both
\* settings of use_proximity - is strictly negative on the diagonal and
\* strictly positive off it.
C19_SignPattern ==
  screen = "setup"
    => \A w \in Topologies :
         \A t \in generate_place_types(w.world_size), prox \in BOOLEAN :
            LET M == generate_payoff_matrix(w.world_size, t, prox, w.is_2d, w.rows, w.cols)
            IN  \A h, s \in 0..(w.world_size - 1) :
                   /\ M[h][s] # NaN
                   /\ IF h = s THEN M[h][s] < 0 ELSE M[h][s] > 0

\* C20: the payoff table a game's matrix was built from has
\* found(Hard) < found(Neutral) < found(Easy) < 0 < notFound(Hard)
\* < notFound(Neutral) < notFound(Easy).
C20_PayoffOrdering ==
  game =>
  /\ payoffs[0][1] < payoffs[1][1] /\ payoffs[1][1] < payoffs[2][1] /\ payoffs[2][1] < 0
  /\ 0 < payoffs[0][2] /\ payoffs[0][2] < payoffs[1][2] /\ payoffs[1][2] < payoffs[2][2]

\* the fields of the game object
game_fields == <<config_vars, world_vars, human_role, score_vars, strat_vars>>

\* C14: a load that fails leaves every field of the game it was called on as
\* it was before the call.
C14_LoadAllOrNothing ==
  [][(game /\ last_op'.name = "load_game" /\ last_op'.raised \notin {"none", "ChartError"})
       => UNCHANGED game_fields]_vars

\* C16: after a load payoff_matrix is the matrix generate_payoff_matrix
\* builds from the loaded place types, use_proximity and topology, whatever
\* matrix the file held.
C16_MatrixRecomputed ==
  (last_op.name = "load_game" /\ last_op.raised = "none")
     => payoff_matrix = generate_payoff_matrix(world_size, place_types, use_proximity,
                                               is_2d, rows, cols)

\* C15: a load_state that follows a save_state of the same game gives back the
\* world_size, use_proximity, is_2d, rows, cols, place_types, payoff_matrix,
\* human_role and the five scores the game had when it was saved
C15_RoundTrip ==
  [][(last_op.name = "save_game" /\ last_op'.name = "load_game" /\ last_op'.raised = "none")
       => UNCHANGED <<config_vars, world_vars, human_role, score_vars>>]_vars

\* found and not-found payoff of the category of position h
FoundPayoff(h)    == payoffs[place_types[h]][1]
NotFoundPayoff(h) == payoffs[place_types[h]][2]

\* C21: without proximity the diagonal entry of row h is the found payoff of
\* place_types[h] and every other entry of the row is its not-found payoff
C21_NoProximityRows ==
  (game /\ ~use_proximity) =>
     \A h, s \in 0..(world_size - 1) :
        payoff_matrix[h][s] = IF h = s THEN FoundPayoff(h) ELSE NotFoundPayoff(h)
C21_Witness ==
  /\ game /\ ~use_proximity /\ world_size = 4
  /\ last_op.name = "start_game"
  /\ payoff_matrix[0][1] # payoff_matrix[1][0]
  /\ payoff_matrix[0][1] = payoff_matrix[0][3]

\* C22: with proximity, in a 1D world, an entry off the diagonal is the
\* not-found payoff of the hider's category times 0.5 at distance 1, 0.75 at
\* distance 2 and 1.0 at every other distance
C22_ProximityMultiplier ==
  (game /\ use_proximity /\ ~is_2d) =>
     \A h, s \in 0..(world_size - 1) :
        h # s => 4 * payoff_matrix[h][s] =
                   NotFoundPayoff(h) * (IF Abs(h - s) = 1 THEN 2
                                        ELSE IF Abs(h - s) = 2 THEN 3 ELSE 4)

\* C23: with proximity, no entry off the diagonal exceeds the not-found
\* payoff of the hider's category, and of two seeker positions the one nearer
\* to the hider never gives the larger entry
C23_Damping ==
  (game /\ use_proximity /\ ~is_2d) =>
     \A h, s \in 0..(world_size - 1) :
        h # s => /\ payoff_matrix[h][s] <= NotFoundPayoff(h)
                 /\ \A s2 \in 0..(world_size - 1) :
                       (s2 # h /\ Abs(h - s) < Abs(h - s2))
                          => payoff_matrix[h][s] <= payoff_matrix[h][s2]

\* C24: no game has fewer than 3 positions
C24_SmallWorldRejected == game => world_size >= 3

\* a list of exactly n categories in which every category occurs
Diverse(types, n) ==
  /\ DOMAIN types = 0..(n - 1)
  /\ \A t \in Categories : \E i \in 0..(n - 1) : types[i] = t
DiversitySizes == {3, 4, 5}
AllPlaceTypesDiverse ==
  \A n \in DiversitySizes : \A t \in generate_place_types(n) : Diverse(t, n)

\* C25: for a world of 3 or more positions every outcome of
\* generate_place_types has world_size entries with each category at least
\* once, and so has place_types after every construction and every reset
C25_Diversity ==
  game => /\ AllPlaceTypesDiverse
          /\ world_size >= 3 => Diverse(place_types, world_size)
C25_Witness ==
  /\ game /\ world_size = 3
  /\ last_op.name = "reset_game" /\ last_op.raised = "none"
  /\ place_types[0] = 2 /\ place_types[1] = 0

\* C26: a start_game that rejects the configuration leaves the game it had,
\* with all its fields, and the frame on screen as they were
C26_RejectedStartKeepsGame ==
  [][(last_op'.name = "start_game" /\ last_op'.raised = "ValueError")
       => UNCHANGED <<gui_vars, game_fields>>]_vars
C26_Witness ==
  /\ game /\ screen = "setup"
  /\ last_op.name = "start_game" /\ last_op.raised = "ValueError"
  /\ rounds_played = 1

\* C27: in every state of a 2D game rows * cols = world_size, with rows the
\* largest divisor of world_size not above its integer square root
C27_GridInference ==
  (game /\ is_2d) =>
     /\ rows * cols = world_size
     /\ rows = GridRows(world_size, ISqrt(world_size))

\* C28: place_types has world_size entries, payoff_matrix is world_size by
\* world_size, and both strategies have world_size entries
C28_DimensionConsistency ==
  (game /\ last_op.raised = "none") =>
     /\ DOMAIN place_types = 0..(world_size - 1)
     /\ DOMAIN payoff_matrix = 0..(world_size - 1)
     /\ \A h \in DOMAIN payoff_matrix : DOMAIN payoff_matrix[h] = 0..(world_size - 1)
     /\ Solved => LenOf(hider_probabilities) = world_size
                   /\ LenOf(seeker_probabilities) = world_size

\* C30: after start_game the role of the human is "hider" or "seeker" and
\* stays the one chosen, through rounds, simulations, saves and resets
C30_RoleSurvivesReset ==
  [][(game /\ last_op'.name \in {"make_move", "run_simulation", "save_game", "reset_game"})
       => (human_role' = human_role /\ human_role' \in {"hider", "seeker"})]_vars

====
